---- MODULE Spec2Model ----
(***************************************************************************)
(* A model of the two components of the repository:                        *)
(*   platforms/mars_ax3.py  the board descriptor _io and class Platform    *)
(*   targets/sim/net.py     class NetSoC (construction, configure_iprange) *)
(*                                                                         *)
(* Python strings that the code takes apart or builds (split, format,      *)
(* upper, int, str) are sequences of one-character strings, so that the    *)
(* conversions are computed and not assumed.  Strings the code only        *)
(* compares or passes on (selector values, pin names, register names) are  *)
(* plain strings.                                                          *)
(***************************************************************************)
EXTENDS Integers, Sequences, FiniteSets, TLC

VARIABLES platform, prog, SoCSDRAM, soc, last

vars == <<platform, prog, SoCSDRAM, soc, last>>

(***************************************************************************)
(* Python string primitives over character sequences.                      *)
(***************************************************************************)
Digits == <<"0", "1", "2", "3", "4", "5", "6", "7", "8", "9">>

Lower == <<"a", "b", "c", "d", "e", "f", "g", "h", "i", "j", "k", "l", "m",
           "n", "o", "p", "q", "r", "s", "t", "u", "v", "w", "x", "y", "z">>

Upper == <<"A", "B", "C", "D", "E", "F", "G", "H", "I", "J", "K", "L", "M",
           "N", "O", "P", "Q", "R", "S", "T", "U", "V", "W", "X", "Y", "Z">>

Range(f) == {f[i] : i \in DOMAIN f}

DigitChars == Range(Digits)

LowerChars == Range(Lower)

IndexOf(seq, c) == CHOOSE i \in DOMAIN seq : seq[i] = c

IsDigit(c) == c \in DigitChars

DigitValue(c) == IndexOf(Digits, c) - 1

\* A variant of upper_char that keeps every character: the name is registered
\* as composed, without upper().  C3 does not hold of it.
upper_char_m(c) == c

\* str.upper() on one character: a lower-case letter becomes its upper-case
\* letter, every other character is kept.
upper_char(c) == IF c \in LowerChars THEN Upper[IndexOf(Lower, c)] ELSE c

\* str.upper()
upper(s) == [i \in DOMAIN s |-> upper_char(s[i])]

\* str.split(sep) for a one-character separator: the pieces between the
\* separators, empty pieces kept, so that a string without separator (the
\* empty string too) gives one piece.
RECURSIVE split(_, _)
split(s, sep) ==
    IF \A i \in DOMAIN s : s[i] # sep
    THEN <<s>>
    ELSE LET k == CHOOSE i \in DOMAIN s :
                      s[i] = sep /\ \A j \in 1..(i - 1) : s[j] # sep
         IN  <<SubSeq(s, 1, k - 1)>> \o split(SubSeq(s, k + 1, Len(s)), sep)

\* Whether int(x) accepts x, for x over the model's alphabet (decimal digits,
\* letters, "."): a non-empty string of decimal digits.  Anything else raises
\* ValueError.
int_ok(x) == Len(x) > 0 /\ \A i \in DOMAIN x : IsDigit(x[i])

\* int(x), base 10, for an x that int accepts.
RECURSIVE int(_)
int(x) ==
    IF Len(x) = 0 THEN 0
    ELSE 10 * int(SubSeq(x, 1, Len(x) - 1)) + DigitValue(x[Len(x)])

\* str(n) for a natural number.
RECURSIVE str(_)
str(n) == IF n < 10 THEN <<Digits[n + 1]>> ELSE str(n \div 10) \o <<Digits[(n % 10) + 1]>>

(***************************************************************************)
(* platforms/mars_ax3.py                                                   *)
(***************************************************************************)

\* One Pins(...) binding of the table: the sub-signal it belongs to ("" for a
\* signal bound without Subsignal), its pin locations, and the IOStandard and
\* Misc given with it ("" when the constraint is given for the whole signal
\* or not at all).
Sig(sub, pins, std, misc) == [sub |-> sub, pins |-> pins, std |-> std, misc |-> misc]

\* One entry of _io: (name, index, bindings..., constraints of the signal).
Res(name, index, sigs, std, misc) ==
    [name |-> name, index |-> index, sigs |-> sigs, std |-> std, misc |-> misc]

_io == <<
    Res("user_led", 0, <<Sig("", <<"M16">>, "", "")>>, "LVCMOS33", ""),
    Res("user_led", 1, <<Sig("", <<"M17">>, "", "")>>, "LVCMOS33", ""),
    Res("user_led", 2, <<Sig("", <<"L18">>, "", "")>>, "LVCMOS33", ""),
    Res("user_led", 3, <<Sig("", <<"M18">>, "", "")>>, "LVCMOS33", ""),
    Res("clk50", 0, <<Sig("", <<"P17">>, "", "")>>, "LVCMOS33", ""),
    Res("cpu_reset", 0, <<Sig("", <<"C2">>, "", "")>>, "LVCMOS33", ""),
    Res("serial", 0,
        <<Sig("tx", <<"U13">>, "", ""),
          Sig("rx", <<"U11">>, "", "")>>, "LVCMOS33", ""),
    Res("spiflash_4x", 0,
        <<Sig("cs_n", <<"L13">>, "", ""),
          Sig("dq", <<"K17", "K18", "L14", "M14">>, "", "")>>, "LVCMOS33", ""),
    Res("spiflash_1x", 0,
        <<Sig("cs_n", <<"L13">>, "", ""),
          Sig("mosi", <<"K17">>, "", ""),
          Sig("miso", <<"K18">>, "", ""),
          Sig("wp", <<"L14">>, "", ""),
          Sig("hold", <<"M14">>, "", "")>>, "LVCMOS33", ""),
    Res("ddram", 0,
        <<Sig("a", <<"J17", "J14", "J18", "D18", "J13", "E17", "K13", "E18",
                     "H17", "F18", "G16", "G18", "H16", "G17", "H15">>, "SSTL135", ""),
          Sig("ba", <<"D17", "H14", "K15">>, "SSTL135", ""),
          Sig("ras_n", <<"F15">>, "SSTL135", ""),
          Sig("cas_n", <<"F16">>, "SSTL135", ""),
          Sig("we_n", <<"J15">>, "SSTL135", ""),
          Sig("dm", <<"D15", "D12">>, "SSTL135", ""),
          Sig("dq", <<"A18", "E16", "A15", "E15", "B18", "B17", "A16", "B16",
                      "B14", "C14", "B13", "D14", "F13", "A11", "F14", "B11">>,
              "SSTL135", "IN_TERM=UNTUNED_SPLIT_40"),
          Sig("dqs_p", <<"A13", "C12">>, "DIFF_SSTL135", "IN_TERM=UNTUNED_SPLIT_40"),
          Sig("dqs_n", <<"A14", "B12">>, "DIFF_SSTL135", "IN_TERM=UNTUNED_SPLIT_40"),
          Sig("clk_p", <<"C16">>, "DIFF_SSTL135", ""),
          Sig("clk_n", <<"C17">>, "DIFF_SSTL135", ""),
          Sig("cke", <<"G14">>, "SSTL135", ""),
          Sig("odt", <<"K16">>, "SSTL135", ""),
          Sig("reset_n", <<"G13">>, "SSTL135", ""),
          Sig("ddr3_vsel", <<"D9">>, "SSTL135", "")>>, "", "SLEW=FAST")
>>

\* The pin bindings of a table: one (signal name, index, sub-signal) per
\* Pins(...) of the table, with the pin locations it binds.
Bindings(io) ==
    UNION {{[entry |-> r, name |-> io[r].name, index |-> io[r].index,
             sub |-> io[r].sigs[k].sub, pins |-> Range(io[r].sigs[k].pins)] :
               k \in DOMAIN io[r].sigs} : r \in DOMAIN io}

\* The device the platform is constructed for: "xc7a35t-csg324-1".
Device == <<"x", "c", "7", "a", "3", "5", "t", "-",
            "c", "s", "g", "3", "2", "4", "-", "1">>

\* The programmer selector values tried: the ones create_programmer names,
\* and others (another tool, a different case, the empty string).
Programmers == {"openocd", "xc3sprog", "vivado", "impact", "OpenOCD", "flashrom", ""}

\* The toolchains the platform is constructed with.
Toolchains == {"vivado", "ise"}

NoPlatform ==
    [state |-> "none", device |-> <<>>, io |-> <<>>, toolchain |-> "",
     bitstream_commands |-> <<>>, additional_commands |-> <<>>,
     programmer |-> "", commands |-> <<>>, available |-> {}]

NoProgrammer == [kind |-> "none"]

\* Platform.__init__(toolchain, programmer)
Platform___init__(toolchain, programmer) ==
    /\ platform.state = "none"
    /\ platform' =
         [state |-> "ready",
          device |-> Device,
          io |-> _io,
          toolchain |-> toolchain,
          bitstream_commands |->
              <<"set_property BITSTREAM.CONFIG.SPI_BUSWIDTH 4 [current_design]">>,
          additional_commands |->
              <<"write_cfgmem -force -format bin -interface spix4 -size 16 -loadbit \"up 0x0 {build_name}.bit\" -file {build_name}.bin">>,
          programmer |-> programmer,
          commands |-> <<"set_property INTERNAL_VREF 0.675 [get_iobanks 15]">>,
          available |-> {<<_io[r].name, _io[r].index>> : r \in DOMAIN _io}]
    /\ UNCHANGED <<prog, SoCSDRAM, soc, last>>

\* "bscan_spi_{}.bit".format(family)
ProxyName(family) ==
    <<"b", "s", "c", "a", "n", "_", "s", "p", "i", "_">> \o family \o <<".", "b", "i", "t">>

OpenOCD(config, flash_proxy_basename) ==
    [kind |-> "OpenOCD", config |-> config, flash_proxy_basename |-> flash_proxy_basename]

XC3SProg(cable) == [kind |-> "XC3SProg", cable |-> cable]

VivadoProgrammer(flash_part) == [kind |-> "VivadoProgrammer", flash_part |-> flash_part]

ValueError(arg, msg) == [kind |-> "ValueError", arg |-> arg, msg |-> msg]

\* A variant of create_programmer whose vivado branch returns the xc3sprog
\* backend.  C1 does not hold of it.
create_programmer_m(self) ==
    IF self.programmer = "openocd"
    THEN OpenOCD("~/nmigen_test/digilent-hs2.cfg", ProxyName(split(self.device, "-")[1]))
    ELSE IF self.programmer = "xc3sprog"
    THEN XC3SProg("nexys4")
    ELSE IF self.programmer = "vivado"
    THEN XC3SProg("nexys4")
    ELSE ValueError(self.programmer, "{} programmer is not supported")

\* What Platform.create_programmer returns or raises for a platform object.
create_programmer(self) ==
    IF self.programmer = "openocd"
    THEN OpenOCD("~/nmigen_test/digilent-hs2.cfg", ProxyName(split(self.device, "-")[1]))
    ELSE IF self.programmer = "xc3sprog"
    THEN XC3SProg("nexys4")
    ELSE IF self.programmer = "vivado"
    THEN VivadoProgrammer("n25q128-3.3v-spi-x1_x2_x4")
    ELSE ValueError(self.programmer, "{} programmer is not supported")

\* A call of platform.create_programmer(): prog is what the caller gets.
Call_create_programmer ==
    /\ platform.state = "ready"
    /\ prog' = create_programmer(platform)
    /\ UNCHANGED <<platform, SoCSDRAM, soc, last>>

\* platform.request(name, number) of the framework: the signal is looked up by
\* (name, index) among those not yet handed out, and handed out once.
request(name, number) ==
    /\ platform.state = "ready"
    /\ <<name, number>> \in platform.available
    /\ platform' = [platform EXCEPT !.available = @ \ {<<name, number>>}]
    /\ UNCHANGED <<prog, SoCSDRAM, soc, last>>

(***************************************************************************)
(* targets/sim/net.py                                                      *)
(***************************************************************************)

\* A bus address as <<upper 16 bits, lower 16 bits>>: the addresses of the
\* memory map do not fit the model checker's integers, and the code only
\* stores them and hands them on.
Addr(hi, lo) == <<hi, lo>>

\* A variant of Merge in which a's value is kept where both have the key
\* ({**b, **a}).  C5 does not hold of it.
Merge_m(a, b) ==
    [k \in DOMAIN a \cup DOMAIN b |-> IF k \in DOMAIN a THEN a[k] ELSE b[k]]

\* {**a, **b}: the keys of both, b's value where both have the key.
Merge(a, b) ==
    [k \in DOMAIN a \cup DOMAIN b |-> IF k \in DOMAIN b THEN b[k] ELSE a[k]]

\* The base memory maps tried for the name SoCSDRAM of the class body: the
\* framework's regions, and the same with an ethmac entry of its own.  net.py
\* does not import the name itself; the model takes it to be bound to a
\* mapping, as the class body needs for the class to exist.
BaseMaps ==
    {[rom |-> Addr(0, 0), sram |-> Addr(4096, 0), main_ram |-> Addr(16384, 0),
      csr |-> Addr(57344, 0)],
     [rom |-> Addr(0, 0), sram |-> Addr(4096, 0), main_ram |-> Addr(16384, 0),
      csr |-> Addr(57344, 0), ethmac |-> Addr(12288, 0)]}

\* NetSoC.mem_map; 0xb0000000 is Addr(0xb000, 0x0000).
mem_map == Merge(SoCSDRAM, [ethmac |-> Addr(45056, 0)])

Max(a, b) == IF a >= b THEN a ELSE b

\* targets.utils.dict_set_max(d, key, value): d[key] becomes value when d has
\* no such key, and the larger of the two otherwise.
dict_set_max(d, key, value) ==
    IF key \in DOMAIN d
    THEN [d EXCEPT ![key] = Max(@, value)]
    ELSE Merge(d, [k \in {key} |-> value])

NoKwargs == [k \in {} |-> 0]

\* The keyword arguments NetSoC is constructed with: none, a ROM size below,
\* at and above 0x10000, and one beside another argument.
KwargsTried ==
    {NoKwargs,
     [integrated_rom_size |-> 32768],
     [integrated_rom_size |-> 131072],
     [integrated_rom_size |-> 65536, integrated_sram_size |-> 4096]}

NoSoC ==
    [state |-> "none", caller_kwargs |-> NoKwargs, kwargs |-> NoKwargs,
     base_init |-> FALSE, base_kwargs |-> NoKwargs,
     calls |-> <<>>, raised |-> "",
     submodules |-> <<>>, csr |-> <<>>, wb_slaves |-> <<>>,
     mem_regions |-> <<>>, interrupts |-> <<>>, constants |-> <<>>]

\* A variant of line 17 that raises integrated_sram_size instead.  C4 does
\* not hold of it.
S_dict_set_max_m(self) ==
    [self EXCEPT !.kwargs = dict_set_max(@, "integrated_sram_size", 65536)]

\* line 17: the ROM size is raised to 0x10000 in the keyword arguments.
S_dict_set_max(self) ==
    [self EXCEPT !.kwargs = dict_set_max(@, "integrated_rom_size", 65536)]

\* line 19: the base class is initialized with the keyword arguments as they
\* are at this point.
S_BaseSoC___init__(self) ==
    [self EXCEPT !.base_init = TRUE, !.base_kwargs = self.kwargs]

\* line 21
S_ethphy(self) ==
    [self EXCEPT !.submodules =
        Append(@, [name |-> "ethphy", kind |-> "LiteEthPHYModel", pads |-> "eth"])]

\* line 23
S_add_csr_ethphy(self) ==
    [self EXCEPT !.csr = Append(@, [name |-> "ethphy", csr_id |-> 18])]

\* line 24
S_ethmac(self) ==
    [self EXCEPT !.submodules =
        Append(@, [name |-> "ethmac", kind |-> "LiteEthMAC", phy |-> "ethphy",
                   dw |-> 32, interface |-> "wishbone",
                   endianness |-> "cpu.endianness"])]

\* line 25
S_add_wb_slave(self) ==
    [self EXCEPT !.wb_slaves =
        Append(@, [address |-> mem_map["ethmac"], bus |-> "ethmac.bus"])]

\* A variant of line 26 that registers the MAC at the index of the PHY.  C8
\* does not hold of it.
S_add_csr_ethmac_m(self) ==
    [self EXCEPT !.csr = Append(@, [name |-> "ethmac", csr_id |-> 18])]

\* line 26
S_add_csr_ethmac(self) ==
    [self EXCEPT !.csr = Append(@, [name |-> "ethmac", csr_id |-> 19])]

\* line 27
S_add_memory_region(self) ==
    [self EXCEPT !.mem_regions =
        Append(@, [name |-> "ethmac", origin |-> mem_map["ethmac"],
                   length |-> 8192, type |-> "io"])]

\* line 29
S_add_interupt(self) ==
    [self EXCEPT !.interrupts = Append(@, "ethmac")]

\* A variant of the order in which the base class is initialized before the
\* ROM size is raised.  C7 does not hold of it.
InitSteps_m ==
    <<"BaseSoC.__init__", "dict_set_max", "ethphy", "add_csr ethphy", "ethmac",
      "add_wb_slave", "add_csr ethmac", "add_memory_region", "add_interupt">>

\* The statements of NetSoC.__init__, in the order of the code.
InitSteps ==
    <<"dict_set_max", "BaseSoC.__init__", "ethphy", "add_csr ethphy", "ethmac",
      "add_wb_slave", "add_csr ethmac", "add_memory_region", "add_interupt">>

\* The statements that call into the framework or the base class, each of
\* which may raise; the exception leaves __init__ at once.
MayRaise == Range(InitSteps) \ {"dict_set_max"}

ApplyStep(self, step) ==
    CASE step = "dict_set_max" -> S_dict_set_max(self)
      [] step = "BaseSoC.__init__" -> S_BaseSoC___init__(self)
      [] step = "ethphy" -> S_ethphy(self)
      [] step = "add_csr ethphy" -> S_add_csr_ethphy(self)
      [] step = "ethmac" -> S_ethmac(self)
      [] step = "add_wb_slave" -> S_add_wb_slave(self)
      [] step = "add_csr ethmac" -> S_add_csr_ethmac(self)
      [] step = "add_memory_region" -> S_add_memory_region(self)
      [] step = "add_interupt" -> S_add_interupt(self)

\* The statements of steps run in order on self; the one named raising (if
\* any) raises when it is reached and nothing after it runs.
RECURSIVE RunSteps(_, _, _)
RunSteps(self, steps, raising) ==
    IF steps = <<>>
    THEN [self EXCEPT !.state = "constructed"]
    ELSE LET step == Head(steps)
             entered == [self EXCEPT !.calls = Append(@, step)]
         IN  IF step = raising
             THEN [entered EXCEPT !.state = "failed", !.raised = step]
             ELSE RunSteps(ApplyStep(entered, step), Tail(steps), raising)

NoCall == [op |-> "none", arg |-> <<>>, raised |-> FALSE, before |-> <<>>, n |-> 0]

\* NetSoC.__init__(**kwargs); raising is the statement that raises, or "".
NetSoC___init__(kwargs, raising) ==
    /\ soc.state = "none"
    /\ soc' = RunSteps([NoSoC EXCEPT !.caller_kwargs = kwargs, !.kwargs = kwargs],
                       InitSteps, raising)
    /\ UNCHANGED <<platform, prog, SoCSDRAM, last>>

\* A variant of line 44 that calls add_csr(s, e) in place of add_constant(s, e).
\* C10 does not hold of it.
add_constant_m(self, name, value) ==
    [self EXCEPT !.csr = Append(@, [name |-> name, csr_id |-> value])]

\* self.add_constant(name, value) of the framework: one more build constant.
add_constant(self, name, value) ==
    [self EXCEPT !.constants = Append(@, [name |-> name, value |-> value])]

\* NetSoC._configure_ip(ip_type, ip): for i, e in enumerate(ip) the constant
\* (ip_type + str(i + 1)).upper() is set to e; ip[k] here is e at i = k - 1.
RECURSIVE _configure_ip_from(_, _, _, _)
_configure_ip_from(self, ip_type, ip, k) ==
    IF k > Len(ip)
    THEN self
    ELSE _configure_ip_from(add_constant(self, upper(ip_type \o str(k)), ip[k]),
                            ip_type, ip, k + 1)

_configure_ip(self, ip_type, ip) == _configure_ip_from(self, ip_type, ip, 1)

\* while len(iprange) < 4: iprange.append(0)
RECURSIVE pad(_)
pad(iprange) == IF Len(iprange) < 4 THEN pad(Append(iprange, 0)) ELSE iprange

\* A variant of iprange[:-1] that keeps the last element.  C2 does not hold
\* of it.
but_last_m(l) == l

\* iprange[:-1]
but_last(l) == SubSeq(l, 1, Len(l) - 1)

LOCALIP == <<"L", "O", "C", "A", "L", "I", "P">>

REMOTEIP == <<"R", "E", "M", "O", "T", "E", "I", "P">>

\* A variant of configure_iprange that converts the components one at a time
\* as it registers the local address, so that the components before the
\* first that is no number are registered.  C9 does not hold of it.
configure_iprange_m(self, iprange) ==
    LET parts == split(iprange, ".")
        bad == {i \in DOMAIN parts : ~int_ok(parts[i])}
        first == IF bad = {} THEN Len(parts) + 1
                 ELSE CHOOSE i \in bad : \A j \in bad : i <= j
        leading == [i \in 1..(first - 1) |-> int(parts[i])]
    IN  IF bad # {}
        THEN [self |-> _configure_ip(self, LOCALIP, leading), raised |-> TRUE]
        ELSE LET octets == pad(leading)
                 local == _configure_ip(self, LOCALIP, but_last(octets) \o <<50>>)
             IN  [self |-> _configure_ip(local, REMOTEIP, but_last(octets) \o <<100>>),
                  raised |-> FALSE]

\* NetSoC.configure_iprange(iprange): the object after the call, and whether
\* the call raised (int() of a component that is no number).
configure_iprange(self, iprange) ==
    LET parts == split(iprange, ".")
    IN  IF \E i \in DOMAIN parts : ~int_ok(parts[i])
        THEN [self |-> self, raised |-> TRUE]
        ELSE LET octets == pad([i \in DOMAIN parts |-> int(parts[i])])
                 local == _configure_ip(self, LOCALIP, but_last(octets) \o <<50>>)
             IN  [self |-> _configure_ip(local, REMOTEIP, but_last(octets) \o <<100>>),
                  raised |-> FALSE]

\* The largest number of components of the IP range strings tried.
MaxComponents == 5

\* The number of calls made on one constructed NetSoC.
MaxCalls == 2

\* sep.join(parts)
RECURSIVE join(_, _)
join(sep, parts) ==
    IF Len(parts) = 0 THEN <<>>
    ELSE IF Len(parts) = 1 THEN parts[1]
    ELSE parts[1] \o <<sep>> \o join(sep, Tail(parts))

\* Components that are no numbers: the empty string and a letter.
BadComponents == {<<>>, <<"x">>}

\* The IP range strings tried: "1", "1.2", ... up to MaxComponents components,
\* each also with one of its components replaced by one that is no number,
\* and the strings "10.0.1", "10.0.1.5" and "192.168.100.200".
IPRanges ==
    LET good(k) == [i \in 1..k |-> str(i)]
        oneBad(k) == {[good(k) EXCEPT ![j] = b] : j \in 1..k, b \in BadComponents}
    IN  {join(".", p) : p \in UNION {{good(k)} \cup oneBad(k) : k \in 1..MaxComponents}}
        \cup {<<"1", "0", ".", "0", ".", "1">>,
              <<"1", "0", ".", "0", ".", "1", ".", "5">>,
              <<"1", "9", "2", ".", "1", "6", "8", ".", "1", "0", "0", ".", "2", "0", "0">>}

\* The ip_type values and address lists _configure_ip is called with directly.
IPTypes == {<<"l", "o", "c", "a", "l", "i", "p">>, <<"G", "a", "t", "e", "w", "a", "y">>, <<"M", "A", "C">>}

IPLists == {<<10, 0>>}

\* A call of soc.configure_iprange(iprange) on a constructed NetSoC.
Call_configure_iprange(iprange) ==
    /\ soc.state = "constructed"
    /\ last.n < MaxCalls
    /\ LET r == configure_iprange(soc, iprange)
       IN  /\ soc' = r.self
           /\ last' = [op |-> "configure_iprange", arg |-> iprange,
                       raised |-> r.raised, before |-> soc.constants,
                       n |-> last.n + 1]
    /\ UNCHANGED <<platform, prog, SoCSDRAM>>

\* A call of soc._configure_ip(ip_type, ip) on a constructed NetSoC.
Call__configure_ip(ip_type, ip) ==
    /\ soc.state = "constructed"
    /\ last.n < MaxCalls
    /\ soc' = _configure_ip(soc, ip_type, ip)
    /\ last' = [op |-> "_configure_ip", arg |-> <<ip_type, ip>>,
                raised |-> FALSE, before |-> soc.constants, n |-> last.n + 1]
    /\ UNCHANGED <<platform, prog, SoCSDRAM>>

(***************************************************************************)
(* The specifications.                                                     *)
(***************************************************************************)
Init ==
    /\ platform = NoPlatform
    /\ prog = NoProgrammer
    /\ SoCSDRAM \in BaseMaps
    /\ soc = NoSoC
    /\ last = NoCall

\* The network SoC: construction, then calls on the constructed object.
Next ==
    \/ \E kwargs \in KwargsTried, raising \in MayRaise \cup {""} :
           NetSoC___init__(kwargs, raising)
    \/ \E iprange \in IPRanges : Call_configure_iprange(iprange)
    \/ \E ip_type \in IPTypes, ip \in IPLists : Call__configure_ip(ip_type, ip)

Spec == Init /\ [][Next]_vars

\* The board: construction, signal requests, programmer selection.
PlatformNext ==
    \/ \E toolchain \in Toolchains, programmer \in Programmers :
           Platform___init__(toolchain, programmer)
    \/ Call_create_programmer
    \/ \E r \in DOMAIN _io : request(_io[r].name, _io[r].index)

PlatformSpec == Init /\ [][PlatformNext]_vars

(***************************************************************************)
(* Properties.                                                             *)
(***************************************************************************)

\* The selector values for which create_programmer returns a backend.
SupportedProgrammers ==
    {p \in Programmers :
        create_programmer([NoPlatform EXCEPT !.programmer = p, !.device = Device]).kind
            # "ValueError"}

BackendKind(p) ==
    create_programmer([NoPlatform EXCEPT !.programmer = p, !.device = Device]).kind

\* "bscan_spi_xc7a35t.bit"
XC7A35TProxy ==
    <<"b", "s", "c", "a", "n", "_", "s", "p", "i", "_",
      "x", "c", "7", "a", "3", "5", "t", ".", "b", "i", "t">>

\* What create_programmer gave is the backend of the selector, with its
\* parameters, for openocd, xc3sprog and vivado, and the error otherwise.
SelectedBackend ==
    /\ platform.programmer = "openocd" =>
         prog = [kind |-> "OpenOCD", config |-> "~/nmigen_test/digilent-hs2.cfg",
                 flash_proxy_basename |-> XC7A35TProxy]
    /\ platform.programmer = "xc3sprog" =>
         prog = [kind |-> "XC3SProg", cable |-> "nexys4"]
    /\ platform.programmer = "vivado" =>
         prog = [kind |-> "VivadoProgrammer",
                 flash_part |-> "n25q128-3.3v-spi-x1_x2_x4"]
    /\ platform.programmer \notin {"openocd", "xc3sprog", "vivado"} =>
         /\ prog.kind = "ValueError"
         /\ prog.arg = platform.programmer

DistinctBackends ==
    \A p, q \in SupportedProgrammers : p # q => BackendKind(p) # BackendKind(q)

\* C1, as stated: there are four supported programmer selector values; for
\* each of them create_programmer returns a backend, of a kind no other
\* supported value gives, with its parameters; for any other value it fails
\* with the unsupported-option error and returns no backend.
C1_FourSupported ==
    platform.state = "ready" =>
        /\ Cardinality(SupportedProgrammers) = 4
        /\ DistinctBackends
        /\ prog.kind # "none" => SelectedBackend

\* C1, amended: there are three supported programmer selector values (openocd,
\* xc3sprog, vivado); for each of them create_programmer returns a backend, of
\* a kind no other supported value gives, with its parameters; for any other
\* value it fails with the unsupported-option error and returns no backend.
C1_ThreeSupported ==
    platform.state = "ready" =>
        /\ SupportedProgrammers = {"openocd", "xc3sprog", "vivado"}
        /\ DistinctBackends
        /\ prog.kind # "none" => SelectedBackend

\* A platform selected with "vivado" has created its programmer.
C1_Witness ==
    /\ platform.state = "ready"
    /\ platform.programmer = "vivado"
    /\ prog.kind = "VivadoProgrammer"

\* C6: no two pin bindings of the board descriptor the platform is built
\* from share a physical pin location.
C6_NoSharedPins ==
    platform.state = "ready" =>
        \A b1, b2 \in Bindings(platform.io) :
            b1 # b2 => b1.pins \cap b2.pins = {}

\* The constants the last call registered.
Emitted == SubSeq(soc.constants, Len(last.before) + 1, Len(soc.constants))

Names(consts) == [i \in DOMAIN consts |-> consts[i].name]

Values(consts) == [i \in DOMAIN consts |-> consts[i].value]

\* LOCALIP1 .. LOCALIP4, REMOTEIP1 .. REMOTEIP4
EightNames ==
    <<<<"L", "O", "C", "A", "L", "I", "P", "1">>,
      <<"L", "O", "C", "A", "L", "I", "P", "2">>,
      <<"L", "O", "C", "A", "L", "I", "P", "3">>,
      <<"L", "O", "C", "A", "L", "I", "P", "4">>,
      <<"R", "E", "M", "O", "T", "E", "I", "P", "1">>,
      <<"R", "E", "M", "O", "T", "E", "I", "P", "2">>,
      <<"R", "E", "M", "O", "T", "E", "I", "P", "3">>,
      <<"R", "E", "M", "O", "T", "E", "I", "P", "4">>>>

TenZeroOne == <<"1", "0", ".", "0", ".", "1">>

TenZeroOneFive == <<"1", "0", ".", "0", ".", "1", ".", "5">>

\* C2: for an IP range of one to four numeric components, configure_iprange
\* registers a local and a remote address whose first three octets are the
\* components given (zero where none was given) and whose last octet is 50
\* and 100, whatever fourth component was given; "10.0.1" and "10.0.1.5"
\* both give 10.0.1.50 and 10.0.1.100.
C2_DerivedAddresses ==
    last.op = "configure_iprange" =>
        LET parts == split(last.arg, ".")
            octet(i) == IF i <= Len(parts) THEN int(parts[i]) ELSE 0
        IN  /\ (Len(parts) <= 4 /\ \A i \in DOMAIN parts : int_ok(parts[i])) =>
                  /\ ~last.raised
                  /\ Names(Emitted) = EightNames
                  /\ Values(Emitted) = <<octet(1), octet(2), octet(3), 50,
                                         octet(1), octet(2), octet(3), 100>>
            /\ last.arg \in {TenZeroOne, TenZeroOneFive} =>
                  Values(Emitted) = <<10, 0, 1, 50, 10, 0, 1, 100>>

\* configure_iprange("10.0.1.5") has completed.
C2_Witness ==
    /\ last.op = "configure_iprange"
    /\ last.arg = TenZeroOneFive
    /\ ~last.raised
    /\ Len(Emitted) = 8
    /\ Emitted[4].value = 50

\* No constant registered so far has a lower-case letter in its name.
AllUppercase ==
    \A i \in DOMAIN soc.constants :
        \A j \in DOMAIN soc.constants[i].name :
            soc.constants[i].name[j] \notin LowerChars

\* C3, as stated: every call of configure_iprange that completes, whatever
\* the number of components of its argument, registers exactly the 8
\* constants LOCALIP1..4, REMOTEIP1..4, and every constant name registered
\* through _configure_ip is uppercase.
C3_EightConstantsAlways ==
    /\ (last.op = "configure_iprange" /\ ~last.raised) =>
           Names(Emitted) = EightNames
    /\ AllUppercase

\* C3, amended: every call of configure_iprange that completes on an argument
\* of at most four components registers exactly the 8 constants LOCALIP1..4,
\* REMOTEIP1..4, and every constant name registered through _configure_ip is
\* uppercase.
C3_EightConstantsUpToFour ==
    /\ (/\ last.op = "configure_iprange"
        /\ ~last.raised
        /\ Len(split(last.arg, ".")) <= 4) =>
           Names(Emitted) = EightNames
    /\ AllUppercase

\* configure_iprange has completed on an object on which _configure_ip had
\* been called with the ip_type "localip".
C3_Witness ==
    /\ last.op = "configure_iprange"
    /\ ~last.raised
    /\ Len(last.before) = 2
    /\ last.before[1].name = <<"L", "O", "C", "A", "L", "I", "P", "1">>
    /\ Len(Emitted) = 8

\* C4: the base SoC is initialized with an integrated ROM size that is the
\* larger of the caller's integrated_rom_size and 0x10000, and 0x10000 when
\* the caller gave none.
C4_RomSize ==
    soc.base_init =>
        /\ "integrated_rom_size" \in DOMAIN soc.base_kwargs
        /\ LET size == soc.base_kwargs["integrated_rom_size"]
               given == soc.caller_kwargs
           IN  /\ size >= 65536
               /\ IF "integrated_rom_size" \in DOMAIN given
                  THEN /\ size >= given["integrated_rom_size"]
                       /\ size \in {given["integrated_rom_size"], 65536}
                  ELSE size = 65536

\* A NetSoC constructed with a ROM size above 0x10000.
C4_Witness ==
    /\ soc.state = "constructed"
    /\ "integrated_rom_size" \in DOMAIN soc.caller_kwargs
    /\ soc.caller_kwargs["integrated_rom_size"] = 131072
    /\ soc.base_kwargs["integrated_rom_size"] = 131072

\* C5: after construction there is one memory region named ethmac, of size
\* 0x2000 and kind io, at the ethmac entry of the merged memory map
\* (0xb0000000), and the bus-slave window of the MAC is at the same address.
C5_EthmacRegion ==
    soc.state = "constructed" =>
        /\ soc.mem_regions =
             <<[name |-> "ethmac", origin |-> <<45056, 0>>, length |-> 8192,
                type |-> "io"]>>
        /\ soc.mem_regions[1].origin = mem_map["ethmac"]
        /\ Len(soc.wb_slaves) = 1
        /\ soc.wb_slaves[1].address = soc.mem_regions[1].origin
        /\ soc.wb_slaves[1].bus = "ethmac.bus"

\* A NetSoC constructed over a base map that has an ethmac entry of its own.
C5_Witness ==
    /\ soc.state = "constructed"
    /\ "ethmac" \in DOMAIN SoCSDRAM
    /\ Len(soc.mem_regions) = 1

PeripheralSteps ==
    {"ethphy", "add_csr ethphy", "ethmac", "add_wb_slave", "add_csr ethmac",
     "add_memory_region", "add_interupt"}

\* C7: in every construction, finished or failed, the ROM size adjustment
\* comes before the base-class initialization, which comes before every
\* network peripheral step; when the base-class initialization fails no
\* peripheral step has happened.
C7_Ordering ==
    LET c == soc.calls
    IN  /\ \A i \in DOMAIN c :
              /\ c[i] = "BaseSoC.__init__" =>
                    \E j \in 1..(i - 1) : c[j] = "dict_set_max"
              /\ c[i] \in PeripheralSteps =>
                    \E j \in 1..(i - 1) : c[j] = "BaseSoC.__init__"
        /\ \A i, j \in DOMAIN c :
              /\ (c[i] = "dict_set_max" /\ c[j] = "BaseSoC.__init__") => i < j
              /\ (c[i] = "BaseSoC.__init__" /\ c[j] \in PeripheralSteps) => i < j
        /\ soc.raised = "BaseSoC.__init__" =>
              /\ \A i \in DOMAIN c : c[i] \notin PeripheralSteps
              /\ soc.submodules = <<>> /\ soc.csr = <<>> /\ soc.wb_slaves = <<>>
              /\ soc.mem_regions = <<>> /\ soc.interrupts = <<>>
        /\ soc.state = "constructed" => Range(c) = {"dict_set_max", "BaseSoC.__init__"} \cup PeripheralSteps

\* A construction in which the base-class initialization failed.
C7_Witness ==
    /\ soc.state = "failed"
    /\ soc.raised = "BaseSoC.__init__"
    /\ soc.calls = <<"dict_set_max", "BaseSoC.__init__">>

\* C8: after construction the PHY is registered at CSR index 18 and the MAC
\* at index 19, the PHY first, each once, whatever the constructor arguments.
C8_CsrIndices ==
    soc.state = "constructed" =>
        soc.csr = <<[name |-> "ethphy", csr_id |-> 18],
                    [name |-> "ethmac", csr_id |-> 19]>>

\* A NetSoC constructed with keyword arguments.
C8_Witness ==
    /\ soc.state = "constructed"
    /\ DOMAIN soc.caller_kwargs = {"integrated_rom_size", "integrated_sram_size"}
    /\ Len(soc.csr) = 2

\* C9: when a component of the argument is no number (the empty component
\* included) configure_iprange fails and the build constants are the same
\* after the call as before it.
C9_FailedCallRegistersNothing ==
    last.op = "configure_iprange" =>
        LET parts == split(last.arg, ".")
            numeric(x) == x # <<>> /\ \A i \in DOMAIN x : x[i] \in DigitChars
        IN  (\E i \in DOMAIN parts : ~numeric(parts[i])) =>
                /\ last.raised
                /\ soc.constants = last.before

\* A call with a component that is no number has failed on an object that
\* had constants registered.
C9_Witness ==
    /\ last.op = "configure_iprange"
    /\ last.raised
    /\ Len(last.before) = 8
    /\ \E i \in DOMAIN last.arg : last.arg[i] = "x"

Registrations(self) ==
    [state |-> self.state, csr |-> self.csr, wb_slaves |-> self.wb_slaves,
     mem_regions |-> self.mem_regions, interrupts |-> self.interrupts,
     submodules |-> self.submodules, base_kwargs |-> self.base_kwargs,
     kwargs |-> self.kwargs]

IsPrefix(a, b) == Len(a) <= Len(b) /\ SubSeq(b, 1, Len(a)) = a

\* C10: every step taken on a constructed NetSoC leaves the CSR
\* registrations, the bus-slave window, the memory region, the interrupt
\* registration and the integrated ROM size as they were, and only adds build
\* constants after the ones there.
C10_RegistrationsFrame ==
    [][soc.state = "constructed" =>
          /\ Registrations(soc') = Registrations(soc)
          /\ IsPrefix(soc.constants, soc'.constants)]_vars

\* Two calls of configure_iprange have completed on a constructed NetSoC.
C10_Witness ==
    /\ soc.state = "constructed"
    /\ last.n = 2
    /\ last.op = "configure_iprange"
    /\ Len(soc.constants) = 16
    /\ soc.csr = <<[name |-> "ethphy", csr_id |-> 18],
                   [name |-> "ethmac", csr_id |-> 19]>>

====
